---- MODULE Spec2Model ----
(***************************************************************************)
(* Streaming reasoning-merge transcoder of the OpenAI -> NVIDIA NIM proxy. *)
(*                                                                         *)
(* One streaming response is modelled: the backend byte stream arrives in  *)
(* chunks (response.data.on('data')), each chunk is cut into lines, each   *)
(* line is transcoded and written to the client (res.write).  The variable *)
(* impl selects which of the repository's handlers runs:                   *)
(*   "server"   src/server.js   (src/unnamed/part_003 has the same code)   *)
(*   "part_001" src/unnamed/part_001                                       *)
(*   "part_002" src/unnamed/part_002                                       *)
(*   "part_004" src/unnamed/part_004                                       *)
(*                                                                         *)
(* Text is a sequence of atoms; '+' on strings is \o.  The two markers are *)
(* one atom each.  A field of a JSON object is a record [k, v]: k says     *)
(* whether the field is absent (undefined), null or a string, v is the     *)
(* string's text.                                                          *)
(*                                                                         *)
(* Specifications:                                                         *)
(*   Spec          one streaming response of src/server.js                 *)
(*   SpecVariants  one streaming response of part_001, part_002, part_004  *)
(*   SpecBytes     Spec, with chunks that may end inside a character       *)
(*   SpecLifecycle Spec, with the stream's 'error' and the client's close  *)
(*   SpecPair      two streaming requests of src/server.js at once         *)
(*   SpecRequest   the route handler of src/server.js from the request to  *)
(*                 its answer: model selection, call, completion, catch    *)
(***************************************************************************)
EXTENDS Naturals, Sequences, FiniteSets, TLC

\* ---------------------------------------------------------------- bounds
\* lines the backend sends in one response
MaxLines == 3
\* lines one chunk may complete
MaxChunkLines == 1
\* choices in one non-streaming backend result
MaxChoices == 2
\* lines the backend sends to each of two concurrent requests
MaxLinesEach == 2

\* ------------------------------------------------------------ JSON values
Absent == [k |-> "absent", v |-> <<>>]
Null == [k |-> "null", v |-> <<>>]
Str(s) == [k |-> "str", v |-> s]

\* JavaScript truthiness of a field holding undefined, null or a string
Truthy(f) == f.k = "str" /\ f.v # <<>>

\* '<think>\n'
OpenMarker == <<"<think>\n">>
\* '\n</think>\n\n'
CloseMarker == <<"\n</think>\n\n">>

\* the process-wide toggle
SHOW_REASONING == TRUE

\* the model id the client asked for, and the one the backend reports
ClientModel == "gpt-4"
BackendModel == "deepseek-ai/deepseek-v3.2"

\* --------------------------------------------------------- backend lines
\* The payload kinds of a backend line (what follows 'data: ', or the
\* whole line when it does not start with 'data: '):
\*   "other"        a line that does not start with 'data: ' (': ping')
\*   "done"         data: [DONE]
\*   "bad"          data: <text that is not JSON>
\*   "nochoices"    data: {}                      (data.choices undefined)
\*   "emptychoices" data: {"choices":[]}          (data.choices[0] undefined)
\*   "event"        data: {"choices":[{"delta":{...}}]}
ReasoningValues == {Absent, Null, Str(<<>>), Str(<<"a">>)}
ContentValues == {Absent, Str(<<>>), Str(<<"c">>)}

Line(t, r, c) == [t |-> t, r |-> r, c |-> c]
Event(r, c) == Line("event", r, c)
Events == {Event(r, c) : r \in ReasoningValues, c \in ContentValues}
DoneLine == Line("done", Absent, Absent)
BadLine == Line("bad", Absent, Absent)
OtherLines == {Line(t, Absent, Absent) : t \in {"other", "nochoices", "emptychoices"}}
Lines == Events \cup {DoneLine, BadLine} \cup OtherLines
\* the lines the transport is seen to cut in two, or to deliver without
\* their newline
SplitLines == {DoneLine, Event(Str(<<"a">>), Absent), Event(Absent, Str(<<"c">>))}

\* ------------------------------------------------------ the byte stream
\* A chunk is a sequence of tokens: a newline, a whole line, or the first
\* or second part of a line that the transport cut inside its payload.
NL == [part |-> "nl", line |-> Line("other", Absent, Absent)]
Full(l) == [part |-> "full", line |-> l]
H1(l) == [part |-> "h1", line |-> l]
H2(l) == [part |-> "h2", line |-> l]
\* chunk.toString() of a chunk that ends inside a character of more than
\* one byte, and of the chunk that starts with the rest of it: each decodes
\* its bytes of the character to U+FFFD
G1(l) == [part |-> "g1", line |-> l]
G2(l) == [part |-> "g2", line |-> l]

\* what the transport still owes of the line it cut
NoCut == [cut |-> "none", line |-> Line("other", Absent, Absent)]
MidCut(l) == [cut |-> "mid", line |-> l]
EolCut(l) == [cut |-> "eol", line |-> l]
CharCut(l) == [cut |-> "char", line |-> l]

Min(a, b) == IF a <= b THEN a ELSE b
SeqsUpTo(S, n) == UNION {[1..k -> S] : k \in 0..n}

RECURSIVE Flatten(_)
Flatten(ss) == IF ss = <<>> THEN <<>> ELSE Head(ss) \o Flatten(Tail(ss))

\* the text of whole lines, each followed by its newline; <<>> is an
\* empty line (the second newline of an SSE event)
LineTexts == {<<>>} \cup {<<Full(l)>> : l \in Lines}
WholeLines(bodies) == Flatten([i \in 1..Len(bodies) |-> bodies[i] \o <<NL>>])

Prefix(owed) == IF owed.cut = "mid" THEN <<H2(owed.line), NL>> ELSE IF owed.cut = "eol" THEN <<NL>> ELSE IF owed.cut = "char" THEN <<G2(owed.line), NL>> ELSE <<>>
Suffixes == {NoCut} \cup {MidCut(l) : l \in SplitLines} \cup {EolCut(l) : l \in SplitLines}
SuffixText(s) == IF s.cut = "mid" THEN <<H1(s.line)>> ELSE IF s.cut = "eol" THEN <<Full(s.line)>> ELSE IF s.cut = "char" THEN <<G1(s.line)>> ELSE <<>>
\* the content text "c" stands for a text with a character of more than
\* one byte; the transport may cut the line inside that character
CharCuts == {CharCut(Event(Absent, Str(<<"c">>)))}

\* ------------------------------------------------- string operations
\* String.prototype.split('\n')
RECURSIVE Split(_)
Split(s) == IF \A i \in 1..Len(s) : s[i] # NL THEN <<s>> ELSE LET i == CHOOSE j \in 1..Len(s) : s[j] = NL /\ \A m \in 1..(j - 1) : s[m] # NL IN <<SubSeq(s, 1, i - 1)>> \o Split(SubSeq(s, i + 1, Len(s)))

\* a line is whole when it is one uncut line or the two parts of one line
Whole(line) == \/ Len(line) = 1 /\ line[1].part = "full"
               \/ Len(line) = 2 /\ line[1].part = "h1" /\ line[2].part = "h2" /\ line[1].line = line[2].line

\* line.startsWith('data: ')
StartsWithData(line) == line # <<>> /\ line[1].part \in {"full", "h1", "g1"} /\ line[1].line.t # "other"

\* the two decoded parts of a line that was cut inside a character: the
\* line is JSON still, its text holds U+FFFD twice for the character
Mangled(line) == Len(line) = 2 /\ line[1].part = "g1" /\ line[2].part = "g2" /\ line[1].line = line[2].line
Mangle(l) == IF Truthy(l.c) THEN [l EXCEPT !.c = Str(<<"U+FFFD", "U+FFFD">>)] ELSE [l EXCEPT !.r = Str(<<"U+FFFD", "U+FFFD">>)]

\* line.slice(6): the payload; the payload of a line that is not whole
\* is text that is no JSON and no terminator
Slice6(line) == IF Whole(line) THEN line[1].line ELSE IF Mangled(line) THEN Mangle(line[1].line) ELSE BadLine

\* JSON.parse: ok = FALSE is the SyntaxError
JSONparse(p) == [ok |-> p.t \in {"nochoices", "emptychoices", "event"}, data |-> [shape |-> p.t, model |-> BackendModel, delta |-> [reasoning_content |-> p.r, content |-> p.c]]]

\* ------------------------------------------------------- client events
\* what res.write sends: a completion chunk (JSON.stringify drops the
\* fields that are undefined, kept here as Absent) or the terminator
Chunk(id, model, rc, c) == [kind |-> "chunk", id |-> id, model |-> model, delta |-> [reasoning_content |-> rc, content |-> c]]
DoneEvent == [kind |-> "done", id |-> "", model |-> "", delta |-> [reasoning_content |-> Absent, content |-> Absent]]
\* the chunk built at the terminator while a reasoning block is open
closingChunk == Chunk("closing-think", ClientModel, Absent, Str(CloseMarker))

\* the handler's closure state while it walks the lines of one chunk, and
\* what it has written since the chunk arrived
Write(st, ev) == [st EXCEPT !.wrote = Append(@, ev)]

\* ------------------------------------------- src/server.js, part_003
\* (mutant) the terminator is forwarded without closing the block
ServerDone_NoClosingChunk(st) == Write(st, DoneEvent)

\* the '[DONE]' branch
ServerDone(st) == Write(IF SHOW_REASONING /\ st.reasoningStarted THEN Write(st, closingChunk) ELSE st, DoneEvent)

\* (mutant) the opening marker is added without looking at the flag
ServerReasoning_AlwaysOpens(started, reasoning) == IF Truthy(reasoning) THEN [text |-> OpenMarker \o reasoning.v, started |-> TRUE] ELSE [text |-> <<>>, started |-> started]

\* (mutant) reasoning that continues an open block is dropped
ServerReasoning_DropsContinuation(started, reasoning) == IF Truthy(reasoning) /\ ~started THEN [text |-> OpenMarker \o reasoning.v, started |-> TRUE] ELSE [text |-> <<>>, started |-> started]

\* the reasoning half of the merge: the text added to newContent and
\* the flag afterwards
ServerReasoning(started, reasoning) == IF Truthy(reasoning) /\ ~started THEN [text |-> OpenMarker \o reasoning.v, started |-> TRUE] ELSE IF Truthy(reasoning) THEN [text |-> reasoning.v, started |-> started] ELSE [text |-> <<>>, started |-> started]

\* (mutant) the flag is not cleared when the block is closed
ServerContent_KeepsFlag(started, content) == IF Truthy(content) /\ started THEN [text |-> CloseMarker \o content.v, started |-> started] ELSE IF Truthy(content) THEN [text |-> content.v, started |-> started] ELSE [text |-> <<>>, started |-> started]

\* the content half of the merge
ServerContent(started, content) == IF Truthy(content) /\ started THEN [text |-> CloseMarker \o content.v, started |-> FALSE] ELSE IF Truthy(content) THEN [text |-> content.v, started |-> started] ELSE [text |-> <<>>, started |-> started]

\* (mutant) reasoning_content is deleted only when it is truthy
ServerEmit_DeletesIfTruthy(st, data, newContent) == IF newContent # <<>> THEN Write(st, Chunk("backend", data.model, IF Truthy(data.delta.reasoning_content) THEN Absent ELSE data.delta.reasoning_content, Str(newContent))) ELSE st

\* (mutant) the delta is written even when newContent is ''
ServerEmit_WritesEmpty(st, data, newContent) == Write(st, Chunk("backend", data.model, Absent, Str(newContent)))

\* the write of a merged delta: nothing is written when newContent is ''
ServerEmit(st, data, newContent) == IF newContent # <<>> THEN Write(st, Chunk("backend", data.model, Absent, Str(newContent))) ELSE st

\* the body of 'if (data.choices && data.choices[0].delta)'
ServerDelta(st, data) ==
  LET reasoning == data.delta.reasoning_content
      content == data.delta.content
      a == ServerReasoning(st.reasoningStarted, reasoning)
      b == ServerContent(a.started, content)
  IN IF SHOW_REASONING
     THEN ServerEmit([st EXCEPT !.reasoningStarted = b.started], data, a.text \o b.text)
     ELSE IF Truthy(content) THEN Write(st, Chunk("backend", data.model, IF Truthy(reasoning) THEN Absent ELSE reasoning, content)) ELSE st

\* (mutant) the catch block passes the line through and forgets the block
ServerLine_CatchPassesThrough(st, line) ==
  IF line = <<>> THEN st
  ELSE IF ~StartsWithData(line) THEN st
  ELSE LET dataStr == Slice6(line)
           p == JSONparse(dataStr)
       IN IF dataStr.t = "done" THEN ServerDone(st)
          ELSE IF ~p.ok THEN Write([st EXCEPT !.reasoningStarted = FALSE], Chunk("raw", "", Absent, Absent))
          ELSE IF p.data.shape = "nochoices" THEN st
          ELSE IF p.data.shape = "emptychoices" THEN st
          ELSE ServerDelta(st, p.data)

\* the body of lines.forEach
ServerLine(st, line) ==
  IF line = <<>> THEN st
  ELSE IF ~StartsWithData(line) THEN st
  ELSE LET dataStr == Slice6(line)
           p == JSONparse(dataStr)
       IN IF dataStr.t = "done" THEN ServerDone(st)
          ELSE IF ~p.ok THEN st
          ELSE IF p.data.shape = "nochoices" THEN st
          ELSE IF p.data.shape = "emptychoices" THEN st
          ELSE ServerDelta(st, p.data)

\* ------------------------------------- src/unnamed/part_001, part_002
\* line.includes('[DONE]')
IncludesDone(line) == Whole(line) /\ line[1].line.t = "done"

\* the merge of part_001 and part_002: the event is written whatever
\* its delta holds; part_001 overwrites data.model first
VariantDelta(im, st, data) ==
  LET delta == data.delta
      model == IF im = "part_001" THEN ClientModel ELSE data.model
  IN IF SHOW_REASONING /\ Truthy(delta.reasoning_content)
     THEN Write([st EXCEPT !.reasoningStarted = TRUE], Chunk("backend", model, Absent, Str((IF st.reasoningStarted THEN <<>> ELSE OpenMarker) \o delta.reasoning_content.v)))
     ELSE IF SHOW_REASONING /\ Truthy(delta.content) /\ st.reasoningStarted
     THEN Write([st EXCEPT !.reasoningStarted = FALSE], Chunk("backend", model, delta.reasoning_content, Str(CloseMarker \o delta.content.v)))
     ELSE Write(st, Chunk("backend", model, delta.reasoning_content, delta.content))

\* the body of 'for (let line of lines)'
VariantLine(im, st, line) ==
  IF ~StartsWithData(line) THEN st
  ELSE IF IncludesDone(line) THEN Write(st, DoneEvent)
  ELSE LET p == JSONparse(Slice6(line))
       IN IF ~p.ok THEN st
          ELSE IF p.data.shape # "event" THEN st
          ELSE VariantDelta(im, st, p.data)

\* ------------------------------------------------ src/unnamed/part_004
Part004Delta(st, data) ==
  LET delta == data.delta
      contentToSend == IF Truthy(delta.reasoning_content)
                       THEN (IF st.reasoningStarted THEN <<>> ELSE OpenMarker) \o delta.reasoning_content.v
                       ELSE IF Truthy(delta.content)
                       THEN (IF st.reasoningStarted /\ ~st.reasoningEnded THEN CloseMarker ELSE <<>>) \o delta.content.v
                       ELSE <<>>
      st1 == IF Truthy(delta.reasoning_content) THEN [st EXCEPT !.reasoningStarted = TRUE]
             ELSE IF Truthy(delta.content) /\ st.reasoningStarted /\ ~st.reasoningEnded THEN [st EXCEPT !.reasoningEnded = TRUE]
             ELSE st
  IN IF contentToSend # <<>> THEN Write(st1, Chunk("backend", data.model, Absent, Str(contentToSend))) ELSE st1

Part004Line(st, line) ==
  IF StartsWithData(line) /\ ~(Whole(line) /\ line[1].line.t = "done")
  THEN LET p == JSONparse(Slice6(line))
       IN IF ~p.ok THEN st
          ELSE IF p.data.shape # "event" THEN st
          ELSE Part004Delta(st, p.data)
  ELSE IF Whole(line) /\ line[1].line.t = "done" THEN Write(st, DoneEvent)
  ELSE st

\* ------------------------------------------------- the 'data' handler
HandleLine(im, st, line) == IF im = "server" THEN ServerLine(st, line) ELSE IF im = "part_004" THEN Part004Line(st, line) ELSE VariantLine(im, st, line)

\* what a line says once its parts are put together
Blank == Line("blank", Absent, Absent)
Partial == Line("partial", Absent, Absent)
Meaning(line) == IF line = <<>> THEN Blank ELSE IF Whole(line) THEN line[1].line ELSE IF Mangled(line) THEN Mangle(line[1].line) ELSE Partial

\* the handler walks the lines in order; steps records, per line, the
\* flag before and after and what was written for it
RECURSIVE RunLines(_, _, _)
RunLines(im, run, lines) ==
  IF lines = <<>> THEN run
  ELSE LET st == [reasoningStarted |-> run.reasoningStarted, reasoningEnded |-> run.reasoningEnded, wrote |-> <<>>]
           nx == HandleLine(im, st, Head(lines))
           step == [line |-> Meaning(Head(lines)), pre |-> st.reasoningStarted, post |-> nx.reasoningStarted, wrote |-> nx.wrote]
       IN RunLines(im, [reasoningStarted |-> nx.reasoningStarted, reasoningEnded |-> nx.reasoningEnded, steps |-> Append(run.steps, step)], Tail(lines))

\* (mutant) the text after the last newline is forgotten
RestOf_Forgets(im, buf, chunk) == <<>>

\* server.js keeps the text after the last newline for the next chunk;
\* the variants cut the chunk alone and walk every piece
LinesOf(im, buf, chunk) == LET lines == Split(buf \o chunk) IN IF im = "server" THEN SubSeq(lines, 1, Len(lines) - 1) ELSE lines
RestOf(im, buf, chunk) == LET lines == Split(buf \o chunk) IN IF im = "server" THEN lines[Len(lines)] ELSE <<>>

Wrote(steps) == Flatten([i \in 1..Len(steps) |-> steps[i].wrote])

\* -------------------------------------------------- what was received
\* The backend events received so far, as a shape: "R" is one or more
\* reasoning-only events, "RC" is those followed by one or more
\* content-only events.  strict wants a non-empty text in the one field
\* and none in the other, loose takes any string in the one field and
\* wants the other absent or null.  r and c are the reasoning and content texts received, n
\* the number of events, skipped the number of lines that were no JSON.
ShapeStep(shape, isR, isC) == IF isR /\ shape \in {"empty", "R"} THEN "R" ELSE IF isC /\ shape \in {"R", "RC"} THEN "RC" ELSE "other"

Track(t, m) ==
  IF m = Blank THEN t
  ELSE IF m.t # "event" THEN [t EXCEPT !.strict = "other", !.loose = "other", !.skipped = @ + (IF m = BadLine THEN 1 ELSE 0)]
  ELSE [strict |-> ShapeStep(t.strict, Truthy(m.r) /\ ~Truthy(m.c), Truthy(m.c) /\ ~Truthy(m.r)),
        loose |-> ShapeStep(t.loose, m.r.k = "str" /\ m.c \in {Absent, Null}, m.c.k = "str" /\ m.r \in {Absent, Null}),
        r |-> t.r \o m.r.v, c |-> t.c \o m.c.v, n |-> t.n + 1, skipped |-> t.skipped]

RECURSIVE TrackAll(_, _)
TrackAll(t, ss) == IF ss = <<>> THEN t ELSE TrackAll(Track(t, Head(ss).line), Tail(ss))

\* the chunk without its lines that are no JSON (and their newlines)
RECURSIVE DropBad(_)
DropBad(chunk) == IF chunk = <<>> THEN <<>> ELSE IF Head(chunk) = Full(BadLine) /\ Len(chunk) >= 2 /\ chunk[2] = NL THEN DropBad(SubSeq(chunk, 3, Len(chunk))) ELSE <<Head(chunk)>> \o DropBad(Tail(chunk))

\* ------------------------------------------------------ model resolver
\* A model name is a sequence of atoms; includes(x) asks whether x is one
\* of them, toLowerCase lowers each atom.
Includes(name, atom) == \E i \in DOMAIN name : name[i] = atom
LowerAtom(a) == CASE a = "GPT-4" -> "gpt-4" [] a = "OPUS" -> "opus" [] a = "Terminus" -> "terminus" [] a = "GLM" -> "glm" [] OTHER -> a
ToLowerCase(name) == [i \in DOMAIN name |-> LowerAtom(name[i])]

Glm47 == <<"z-ai", "/", "glm", "4.7">>
DeepseekV32 == <<"deepseek-ai", "/", "deepseek-v3.2">>
Terminus31 == <<"3.1-", "terminus">>

\* the own properties of MODEL_MAPPING
MODEL_MAPPING ==
  <<"gpt-3.5-turbo">> :> Glm47 @@
  <<"gpt-4">> :> DeepseekV32 @@
  <<"gpt-4", "o">> :> <<"deepseek-ai", "/", "deepseek-v3.1-", "terminus">> @@
  Glm47 :> Glm47 @@
  <<"glm", "4.7">> :> Glm47 @@
  <<"deepseek-v3.2">> :> DeepseekV32 @@
  DeepseekV32 :> DeepseekV32 @@
  Terminus31 :> Terminus31 @@
  <<"claude-3-", "opus">> :> <<"meta", "/", "llama-3.1-405b-instruct">> @@
  <<"claude-3-sonnet">> :> <<"meta", "/", "llama-3.1-70b-instruct">> @@
  <<"deepseek-r1">> :> <<"deepseek-ai", "/", "deepseek-r1">>

\* MODEL_MAPPING is an object literal: a property read also finds the
\* members it inherits from Object.prototype, which are functions or
\* objects, not strings
InheritedKeys == {<<"constructor">>, <<"toString">>}
Inherited == [k |-> "object", v |-> <<>>]

\* MODEL_MAPPING[model]; a key that is undefined finds nothing
Lookup(model) == IF model.k # "str" THEN Absent ELSE IF model.v \in DOMAIN MODEL_MAPPING THEN Str(MODEL_MAPPING[model.v]) ELSE IF model.v \in InheritedKeys THEN Inherited ELSE Absent

\* the rules for a name the table does not hold
Heuristic(name) ==
  IF Includes(name, "/") \/ Includes(name, "terminus") THEN name
  ELSE LET modelLower == ToLowerCase(name)
       IN IF Includes(modelLower, "gpt-4") \/ Includes(modelLower, "opus") THEN DeepseekV32
          ELSE IF Includes(modelLower, "terminus") THEN Terminus31
          ELSE IF Includes(modelLower, "glm") THEN Glm47
          ELSE Glm47

\* (mutant) the rules are tried before the table
Resolve_RulesFirst(model) == IF model.k # "str" THEN [threw |-> TRUE, nimModel |-> Absent] ELSE IF Heuristic(model.v) # Glm47 \/ Lookup(model) = Absent THEN [threw |-> FALSE, nimModel |-> Str(Heuristic(model.v))] ELSE [threw |-> FALSE, nimModel |-> Lookup(model)]

\* the model selection: threw is the TypeError of model.includes on a
\* model that is undefined
Resolve(model) ==
  LET nimModel == Lookup(model)
  IN IF nimModel # Absent THEN [threw |-> FALSE, nimModel |-> nimModel]
     ELSE IF model.k # "str" THEN [threw |-> TRUE, nimModel |-> Absent]
     ELSE [threw |-> FALSE, nimModel |-> Str(Heuristic(model.v))]

\* the client's model names: every key of the table and names it lacks
ModelNames == DOMAIN MODEL_MAPPING \cup InheritedKeys \cup
  {<<>>, <<"x">>, <<"gpt-4", "-turbo">>, <<"GPT-4">>, <<"OPUS">>, <<"Terminus">>, <<"deepseek-", "terminus">>, <<"meta", "/", "x">>, <<"org", "/", "gpt-4">>, <<"GLM", "-5">>, <<"glm", "-5">>}

\* -------------------------------------------------- request transformer
\* req.body: model is undefined or a name, messages are there or not,
\* stream is undefined, true or false
\* temperature (in tenths) and max_tokens are undefined or a number
NoNum == [k |-> "absent", n |-> 0]
Num(n) == [k |-> "num", n |-> n]
TruthyNum(x) == x.k = "num" /\ x.n # 0
Temperatures == {NoNum, Num(0), Num(7)}
MaxTokens == {NoNum, Num(0), Num(100)}
\* the defaults of nimRequest: 0.6 in tenths, and 4096
DefaultTemperature == 6
DefaultMaxTokens == 4096

Requests == [model : {Absent} \cup {Str(n) : n \in ModelNames}, messages : {"absent", "present"}, stream : {"absent", "true", "false"}, temperature : Temperatures, max_tokens : MaxTokens]

\* the body axios sends: JSON.stringify drops a model that is a function
nimRequest(body, nimModel) ==
  [model |-> IF nimModel.k = "str" THEN nimModel ELSE Absent,
   messages |-> body.messages,
   temperature |-> IF TruthyNum(body.temperature) THEN body.temperature ELSE Num(DefaultTemperature),
   max_tokens |-> IF TruthyNum(body.max_tokens) THEN body.max_tokens ELSE Num(DefaultMaxTokens),
   stream |-> body.stream = "true"]
NoCall == [model |-> Absent, messages |-> "absent", temperature |-> NoNum, max_tokens |-> NoNum, stream |-> FALSE]

\* what the streaming variants ask the backend for when the client asks
\* for ClientModel and gives its own temperature and max_tokens
StreamRequest == [model |-> Str(<<ClientModel>>), messages |-> "present", stream |-> "true", temperature |-> Num(7), max_tokens |-> Num(100)]
StreamCall(im) == nimRequest(StreamRequest, IF im = "server" THEN Resolve(StreamRequest.model).nimModel ELSE IF im = "part_004" THEN Str(Glm47) ELSE Str(<<"z-ai", "/", "glm5">>))

\* ------------------------------------------------ non-streaming result
\* response.data of a call without stream: a completion with choices, or
\* a body that has none; a choice has a message or lacks it
MessageContents == {Absent, Null, Str(<<"c">>)}
Choice(c, r) == [hasMessage |-> TRUE, role |-> "assistant", content |-> c, reasoning_content |-> r]
NoMessageChoice == [hasMessage |-> FALSE, role |-> "", content |-> Absent, reasoning_content |-> Absent]
Choices == {Choice(c, r) : c \in MessageContents, r \in ReasoningValues} \cup {NoMessageChoice}
Completion(choices) == [ok |-> TRUE, choices |-> choices]
Malformed == [ok |-> FALSE, choices |-> <<>>]
Bodies == {Completion(cs) : cs \in SeqsUpTo(Choices, MaxChoices)} \cup {Malformed}

\* what the client receives: res.status(..).json(..)
NoError == [message |-> "", type |-> "", code |-> 0]
NoResponse == [status |-> 0, body |-> [kind |-> "none", model |-> Absent, choices |-> <<>>, error |-> NoError]]
EventStream == [status |-> 200, body |-> [kind |-> "event-stream", model |-> Absent, choices |-> <<>>, error |-> NoError]]

\* (mutant) the reasoning stays beside the content
MergeChoice_KeepsReasoning(choice) == [role |-> choice.role, content |-> Str(IF Truthy(choice.content) THEN choice.content.v ELSE <<>>), reasoning_content |-> choice.reasoning_content]

\* one choice of the result: the reasoning goes in front of the content,
\* inside the markers
MergeChoice(choice) ==
  LET fullContent == IF Truthy(choice.content) THEN choice.content.v ELSE <<>>
      merged == IF SHOW_REASONING /\ Truthy(choice.reasoning_content)
                THEN OpenMarker \o choice.reasoning_content.v \o CloseMarker \o fullContent
                ELSE fullContent
  IN [role |-> choice.role, content |-> Str(merged), reasoning_content |-> Absent]

\* response.data.choices.map(..) throws the TypeError when there are no
\* choices or a choice has no message (choice.message.role)
MapThrows(data) == ~data.ok \/ \E i \in DOMAIN data.choices : ~data.choices[i].hasMessage
openaiResponse(body, data) == [status |-> 200, body |-> [kind |-> "completion", model |-> body.model, choices |-> [i \in DOMAIN data.choices |-> MergeChoice(data.choices[i])], error |-> NoError]]

\* ---------------------------------------------------------- the catch
\* what axios.post or the code after it throws: status 0 is an error
\* without a response
TypeError == [message |-> "Cannot read properties of undefined", status |-> 0, data |-> NoError]
FailureStatuses == {401, 500}
HttpError(status, data) == [message |-> IF status = 401 THEN "Request failed with status code 401" ELSE "Request failed with status code 500", status |-> status, data |-> data]
\* error.response.data: the backend's own error object, or no body
BackendErrorBodies(status) == {NoError, [message |-> "backend error text", type |-> "backend_error", code |-> status]}
NetworkErrors == {[message |-> m, status |-> 0, data |-> NoError] : m \in {"", "socket hang up", "connect ETIMEDOUT"}}

\* (mutant) every failure is answered with 500
Catch_Always500(error) == [status |-> 500, body |-> [kind |-> "error", model |-> Absent, choices |-> <<>>, error |-> [message |-> IF error.message # "" THEN error.message ELSE "Internal server error", type |-> "invalid_request_error", code |-> 500]]]

\* the catch block of the handler
Catch(error) ==
  LET status == IF error.status # 0 THEN error.status ELSE 500
  IN [status |-> status, body |-> [kind |-> "error", model |-> Absent, choices |-> <<>>, error |-> [message |-> IF error.message # "" THEN error.message ELSE "Internal server error", type |-> "invalid_request_error", code |-> status]]]

\* ---------------------------------------------------------------- state
\* impl              the handler that runs
\* buffer            the text after the last newline (server.js)
\* reasoningStarted  the flag of the closure
\* reasoningEnded    the second flag of part_004
\* written           the events written to the client, in order
\* ended             res.end() was called
\* owed, sent        the transport: what it owes of a cut line, and the
\*                   number of lines it has started
\* steps             the lines of the last chunk, as handled
\* seen              the shape of what was received
\* shadow            the same handler fed the same stream without the
\*                   lines that are no JSON
VARIABLES impl, buffer, reasoningStarted, reasoningEnded, written, ended, owed, sent, steps, seen, shadow, arrived, request, pc, backend, call, res, client, upstream, whole, received, conns, last

vars == <<impl, buffer, reasoningStarted, reasoningEnded, written, ended, owed, sent, steps, seen, shadow, arrived, request, pc, backend, call, res, client, upstream, whole, received, conns, last>>

\* the handler's closure and the history kept about the stream
streamVars == <<buffer, reasoningStarted, reasoningEnded, written, ended, owed, sent, steps, seen, shadow, arrived, whole, received>>
\* the request, where its handler stands, what the backend did, what was
\* posted to it and what was answered
requestVars == <<request, pc, backend, call, res>>
\* the closures of two requests that stream at the same time, and which
\* of the two had the latest callback
pairVars == <<conns, last>>

\* the closure as the handler creates it
FreshStream ==
  /\ buffer = <<>>
  /\ reasoningStarted = FALSE
  /\ reasoningEnded = FALSE
  /\ written = <<>>
  /\ ended = FALSE
  /\ owed = NoCut
  /\ sent = 0
  /\ steps = <<>>
  /\ seen = [strict |-> "empty", loose |-> "empty", r |-> <<>>, c |-> <<>>, n |-> 0, skipped |-> 0]
  /\ shadow = [buffer |-> <<>>, reasoningStarted |-> FALSE, reasoningEnded |-> FALSE, written |-> <<>>]
  /\ arrived = <<>>
  /\ whole = [buffer |-> <<>>, reasoningStarted |-> FALSE, reasoningEnded |-> FALSE, written |-> <<>>]
  /\ received = <<>>
  /\ client = "open"

\* what the backend did with the call: kind, HTTP status (0: none) and
\* the body it sent
Outcome(kind, status, data, error) == [kind |-> kind, status |-> status, data |-> data, error |-> error]
NotCalled == Outcome("idle", 0, Malformed, NoError)
Pending == Outcome("pending", 0, Malformed, NoError)
Silent == Outcome("silent", 0, Malformed, NoError)
Streaming == Outcome("streaming", 200, Malformed, NoError)

\* the backend has answered a streaming call and the handlers are set
StreamStarted(impls) ==
  /\ impl \in impls
  /\ FreshStream
  /\ request = StreamRequest
  /\ pc = "streaming"
  /\ backend = Streaming
  /\ call = StreamCall(impl)
  /\ res = EventStream
  /\ upstream = "flowing"

\* one request alone
NoPair == conns = <<>> /\ last = 0
InitOf(impls) == StreamStarted(impls) /\ NoPair

Init == InitOf({"server"})
InitVariants == InitOf({"part_001", "part_002", "part_004"})

\* the lines whose newline the transport delivers with a chunk, as the
\* backend sent them: the line it had cut, then the whole lines
Arrival(body) == IF body = <<>> THEN Blank ELSE body[1].line
Completed(o) == IF o.cut = "none" THEN <<>> ELSE <<o.line>>

\* the reasoning and content texts of the events among the lines, in the
\* order the backend sent them
RECURSIVE TextOf(_)
TextOf(ls) == IF ls = <<>> THEN <<>> ELSE (IF Head(ls).t = "event" THEN Head(ls).r.v \o Head(ls).c.v ELSE <<>>) \o TextOf(Tail(ls))

\* the same handler when the transport brings every line in a chunk of
\* its own, whole and with its newline
WholeLine(l) == IF l = Blank THEN <<NL>> ELSE <<Full(l), NL>>
RECURSIVE FeedWhole(_, _, _)
FeedWhole(im, w, ls) ==
  IF ls = <<>> THEN w
  ELSE LET run == RunLines(im, [reasoningStarted |-> w.reasoningStarted, reasoningEnded |-> w.reasoningEnded, steps |-> <<>>], LinesOf(im, w.buffer, WholeLine(Head(ls))))
       IN FeedWhole(im, [buffer |-> RestOf(im, w.buffer, WholeLine(Head(ls))), reasoningStarted |-> run.reasoningStarted, reasoningEnded |-> run.reasoningEnded, written |-> w.written \o Wrote(run.steps)], Tail(ls))

\* the closure's flags after the handler has walked the chunk, with the
\* steps it took
Handle(im, buf, started, endedFlag, chunk) == RunLines(im, [reasoningStarted |-> started, reasoningEnded |-> endedFlag, steps |-> <<>>], LinesOf(im, buf, chunk))

\* response.data.on('data', chunk): the chunk is what the transport owed
\* of a cut line, then whole lines, then possibly the start of a line
OnDataCut(cuts) ==
  /\ pc = "streaming"
  /\ upstream = "flowing"
  /\ ~ended
  /\ \E suffix \in cuts, bodies \in SeqsUpTo(LineTexts, Min(MaxChunkLines, MaxLines - sent)) :
       LET chunk == Prefix(owed) \o WholeLines(bodies) \o SuffixText(suffix)
           n == Len(bodies) + (IF suffix = NoCut THEN 0 ELSE 1)
           run == Handle(impl, buffer, reasoningStarted, reasoningEnded, chunk)
           ghost == Handle(impl, shadow.buffer, shadow.reasoningStarted, shadow.reasoningEnded, DropBad(chunk))
           lineByLine == FeedWhole(impl, whole, Completed(owed) \o [i \in 1..Len(bodies) |-> Arrival(bodies[i])])
       IN /\ sent + n <= MaxLines
          /\ chunk # <<>>
          /\ sent' = sent + n
          /\ owed' = suffix
          /\ buffer' = RestOf(impl, buffer, chunk)
          /\ reasoningStarted' = run.reasoningStarted
          /\ reasoningEnded' = run.reasoningEnded
          /\ steps' = run.steps
          /\ arrived' = Completed(owed) \o [i \in 1..Len(bodies) |-> Arrival(bodies[i])]
          /\ written' = written \o Wrote(run.steps)
          /\ whole' = lineByLine
          /\ received' = received \o TextOf(Completed(owed) \o [i \in 1..Len(bodies) |-> Arrival(bodies[i])])
          /\ seen' = TrackAll(seen, run.steps)
          /\ shadow' = [buffer |-> RestOf(impl, shadow.buffer, DropBad(chunk)), reasoningStarted |-> ghost.reasoningStarted, reasoningEnded |-> ghost.reasoningEnded, written |-> shadow.written \o Wrote(ghost.steps)]
  /\ UNCHANGED <<impl, ended, client, upstream>>
  /\ UNCHANGED requestVars
  /\ UNCHANGED pairVars

\* the chunks end between characters
OnData == OnDataCut(Suffixes)

\* the chunks end between bytes: also inside a character
OnDataBytes == OnDataCut(Suffixes \cup CharCuts)

\* response.data.on('end'): res.end()
OnEnd ==
  /\ pc = "streaming"
  /\ upstream = "flowing"
  /\ ~ended
  /\ ended' = TRUE
  /\ upstream' = "ended"
  /\ steps' = <<>>
  /\ arrived' = <<>>
  /\ UNCHANGED <<impl, buffer, reasoningStarted, reasoningEnded, written, owed, sent, seen, shadow, whole, received, client>>
  /\ UNCHANGED requestVars
  /\ UNCHANGED pairVars

Next == OnData \/ OnEnd

Spec == Init /\ [][Next]_vars
SpecVariants == InitVariants /\ [][Next]_vars

NextBytes == OnDataBytes \/ OnEnd
SpecBytes == Init /\ [][NextBytes]_vars

\* ------------------------------------------- POST /v1/chat/completions
\* a request has come in and its handler has not run yet
InitRequest ==
  /\ impl = "server"
  /\ FreshStream
  /\ request \in Requests
  /\ pc = "received"
  /\ backend = NotCalled
  /\ call = NoCall
  /\ res = NoResponse
  /\ upstream = "none"
  /\ NoPair

\* the handler up to its await: the model is selected and the call is
\* posted, or the TypeError of the selection is caught
Post ==
  /\ pc = "received"
  /\ LET r == Resolve(request.model)
     IN IF r.threw
        THEN /\ pc' = "responded"
             /\ res' = Catch(TypeError)
             /\ UNCHANGED <<call, backend>>
        ELSE /\ pc' = "awaiting"
             /\ call' = nimRequest(request, r.nimModel)
             /\ backend' = Pending
             /\ UNCHANGED res
  /\ UNCHANGED <<impl, request, client, upstream>>
  /\ UNCHANGED streamVars
  /\ UNCHANGED pairVars

\* the backend answers 200 to a call without stream and the handler
\* builds the completion, or its map throws and the catch answers
BackendReplies ==
  /\ pc = "awaiting"
  /\ backend.kind = "pending"
  /\ request.stream # "true"
  /\ \E data \in Bodies :
       /\ backend' = Outcome("replied", 200, data, NoError)
       /\ res' = IF MapThrows(data) THEN Catch(TypeError) ELSE openaiResponse(request, data)
  /\ pc' = "responded"
  /\ UNCHANGED <<impl, request, call, client, upstream>>
  /\ UNCHANGED streamVars
  /\ UNCHANGED pairVars

\* the backend answers with an error status: axios rejects and the catch
\* answers
BackendFails ==
  /\ pc = "awaiting"
  /\ backend.kind = "pending"
  /\ \E status \in FailureStatuses : \E data \in BackendErrorBodies(status) :
       /\ backend' = Outcome("failed", status, Malformed, data)
       /\ res' = Catch(HttpError(status, data))
  /\ pc' = "responded"
  /\ UNCHANGED <<impl, request, call, client, upstream>>
  /\ UNCHANGED streamVars
  /\ UNCHANGED pairVars

\* the call fails without a response: axios rejects and the catch answers
NetworkFails ==
  /\ pc = "awaiting"
  /\ backend.kind = "pending"
  /\ \E error \in NetworkErrors :
       /\ backend' = Outcome("network", 0, Malformed, [NoError EXCEPT !.message = error.message])
       /\ res' = Catch(error)
  /\ pc' = "responded"
  /\ UNCHANGED <<impl, request, call, client, upstream>>
  /\ UNCHANGED streamVars
  /\ UNCHANGED pairVars

\* the backend keeps the connection and never answers; the call was
\* posted without a timeout, so the await is never settled
BackendStalls ==
  /\ pc = "awaiting"
  /\ backend.kind = "pending"
  /\ backend' = Silent
  /\ UNCHANGED <<impl, request, pc, call, res, client, upstream>>
  /\ UNCHANGED streamVars
  /\ UNCHANGED pairVars

\* the backend answers 200 to a call with stream: the headers of the
\* event stream are set and the handlers are attached
BackendStreams ==
  /\ pc = "awaiting"
  /\ backend.kind = "pending"
  /\ request.stream = "true"
  /\ backend' = Streaming
  /\ res' = EventStream
  /\ pc' = "streaming"
  /\ upstream' = "flowing"
  /\ UNCHANGED <<impl, request, call, client>>
  /\ UNCHANGED streamVars
  /\ UNCHANGED pairVars

\* response.data.on('error'): the error is logged and the response is
\* ended as it is at the end of the stream
OnError ==
  /\ pc = "streaming"
  /\ upstream = "flowing"
  /\ ~ended
  /\ ended' = TRUE
  /\ upstream' = "errored"
  /\ steps' = <<>>
  /\ arrived' = <<>>
  /\ UNCHANGED <<impl, buffer, reasoningStarted, reasoningEnded, written, owed, sent, seen, shadow, whole, received, client>>
  /\ UNCHANGED requestVars
  /\ UNCHANGED pairVars

\* the client closes its connection while the stream is open: no handler
\* is registered for it, so nothing of the program's state changes and
\* the backend stream flows on
ClientClose ==
  /\ pc = "streaming"
  /\ client = "open"
  /\ ~ended
  /\ client' = "closed"
  /\ steps' = <<>>
  /\ arrived' = <<>>
  /\ UNCHANGED <<impl, buffer, reasoningStarted, reasoningEnded, written, ended, owed, sent, seen, shadow, whole, received, upstream>>
  /\ UNCHANGED requestVars
  /\ UNCHANGED pairVars

NextLifecycle == OnData \/ OnEnd \/ OnError \/ ClientClose

SpecLifecycle == Init /\ [][NextLifecycle]_vars

\* -------------------------------------- two requests at the same time
\* Each call of the route handler declares its own buffer and
\* reasoningStarted; its callbacks close over them.  alone is the same
\* stream handled by a process that serves no other request.
Connections == {1, 2}
FreshClosure == [buffer |-> <<>>, reasoningStarted |-> FALSE, written |-> <<>>]
FreshConn == [buffer |-> <<>>, reasoningStarted |-> FALSE, written |-> <<>>, ended |-> FALSE, owed |-> NoCut, sent |-> 0, alone |-> FreshClosure]

\* the lines and cuts of the two streams
PairSuffixes == {NoCut} \cup {MidCut(l) : l \in SplitLines}
PairLineTexts == {<<Full(l)>> : l \in SplitLines}

\* (mutant) buffer and reasoningStarted are declared once for the
\* module, where the first request's callbacks write them
ClosureOf_Module(cs, c) == cs[1]

\* the buffer and flag the callbacks of request c close over
ClosureOf(cs, c) == cs[c]

InitPair ==
  /\ StreamStarted({"server"})
  /\ conns = [c \in Connections |-> FreshConn]
  /\ last = 0

\* the 'data' callback of request c
OnDataOf(c) ==
  /\ ~conns[c].ended
  /\ \E suffix \in PairSuffixes, bodies \in SeqsUpTo(PairLineTexts, Min(MaxChunkLines, MaxLinesEach - conns[c].sent)) :
       LET chunk == Prefix(conns[c].owed) \o WholeLines(bodies) \o SuffixText(suffix)
           n == Len(bodies) + (IF suffix = NoCut THEN 0 ELSE 1)
           closure == ClosureOf(conns, c)
           run == Handle("server", closure.buffer, closure.reasoningStarted, FALSE, chunk)
           solo == Handle("server", conns[c].alone.buffer, conns[c].alone.reasoningStarted, FALSE, chunk)
       IN /\ conns[c].sent + n <= MaxLinesEach
          /\ chunk # <<>>
          /\ conns' = [conns EXCEPT ![c] = [buffer |-> RestOf("server", closure.buffer, chunk),
                                            reasoningStarted |-> run.reasoningStarted,
                                            written |-> @.written \o Wrote(run.steps),
                                            ended |-> FALSE,
                                            owed |-> suffix,
                                            sent |-> @.sent + n,
                                            alone |-> [buffer |-> RestOf("server", @.alone.buffer, chunk), reasoningStarted |-> solo.reasoningStarted, written |-> @.alone.written \o Wrote(solo.steps)]]]
  /\ last' = c
  /\ UNCHANGED <<impl, client, upstream>>
  /\ UNCHANGED streamVars
  /\ UNCHANGED requestVars

\* the 'end' callback of request c
OnEndOf(c) ==
  /\ ~conns[c].ended
  /\ conns' = [conns EXCEPT ![c].ended = TRUE]
  /\ last' = c
  /\ UNCHANGED <<impl, client, upstream>>
  /\ UNCHANGED streamVars
  /\ UNCHANGED requestVars

OnDataFirst == OnDataOf(1)
OnDataSecond == OnDataOf(2)
OnEndFirst == OnEndOf(1)
OnEndSecond == OnEndOf(2)

NextPair == OnDataFirst \/ OnDataSecond \/ OnEndFirst \/ OnEndSecond

SpecPair == InitPair /\ [][NextPair]_vars

NextRequest == Post \/ BackendReplies \/ BackendFails \/ NetworkFails \/ BackendStalls \/ BackendStreams

SpecRequest == InitRequest /\ [][NextRequest]_vars

\* ------------------------------------------------------------ the claims
Steps == {steps[i] : i \in DOMAIN steps}
ReasoningSteps == {s \in Steps : s.line.t = "event" /\ Truthy(s.line.r)}
ContentSteps == {s \in Steps : s.line.t = "event" /\ Truthy(s.line.c)}
DoneSteps == {s \in Steps : s.line.t = "done"}
Forwarded(text) == <<Chunk("backend", BackendModel, Absent, Str(text))>>
Opening(s) == IF s.pre THEN <<>> ELSE OpenMarker

\* the texts of the content fields written so far, joined
RECURSIVE Contents(_)
Contents(evs) == IF evs = <<>> THEN <<>> ELSE Head(evs).delta.content.v \o Contents(Tail(evs))

\* C1 as stated: an event with non-empty reasoning_content is written as
\* the reasoning text, after '<think>\n' when the block was closed, and
\* the block is open afterwards.
C1_AsStated == \A s \in ReasoningSteps : s.wrote = Forwarded(Opening(s) \o s.line.r.v) /\ s.post = TRUE

\* C1 (amended): an event with non-empty reasoning_content is written as
\* one event whose content starts with the reasoning text, after
\* '<think>\n' when the block was closed; when the event carries no
\* non-empty content that is all of it and the block is open afterwards;
\* when it also carries non-empty content, '\n</think>\n\n' and the
\* content follow in the same event and the block is closed afterwards.
C1_ReasoningBranch == \A s \in ReasoningSteps :
  IF Truthy(s.line.c)
  THEN s.wrote = Forwarded(Opening(s) \o s.line.r.v \o CloseMarker \o s.line.c.v) /\ s.post = FALSE
  ELSE s.wrote = Forwarded(Opening(s) \o s.line.r.v) /\ s.post = TRUE

\* C1 witness: reasoning arrives while the block is already open
C1_Witness == \E s \in ReasoningSteps : s.pre /\ ~Truthy(s.line.c) /\ s.wrote # <<>> /\ impl = "server"

\* C2: an event with non-empty content received while the block is
\* open is written with '\n</think>\n\n' right before the content text
\* (after the event's own reasoning text, if any) and the block is
\* closed afterwards; received while the block is closed and carrying no
\* reasoning, it is forwarded with its content unchanged, no marker, and
\* the block stays closed.
C2_ContentBranch == \A s \in ContentSteps :
  /\ s.pre => s.wrote = Forwarded((IF Truthy(s.line.r) THEN s.line.r.v ELSE <<>>) \o CloseMarker \o s.line.c.v) /\ s.post = FALSE
  /\ (~s.pre /\ ~Truthy(s.line.r)) => s.wrote = <<Chunk("backend", BackendModel, Absent, s.line.c)>> /\ s.post = FALSE

\* C2 witness: content arrives while the block is open
C2_Witness == \E s \in ContentSteps : s.pre /\ s.wrote # <<>> /\ impl = "server"

\* C3 as stated: after one or more reasoning-only events followed by one
\* or more content-only events (their texts any strings), one event was
\* written per event received and the written contents join to
\* '<think>\n' + reasoning texts + '\n</think>\n\n' + content texts.
C3_AsStated == seen.loose = "RC" => Len(written) = seen.n /\ Contents(written) = OpenMarker \o seen.r \o CloseMarker \o seen.c

\* C3 (amended): after one or more reasoning-only events followed by one
\* or more content-only events, each with a non-empty text, one event
\* was written per event received and the written contents join to
\* '<think>\n' + reasoning texts + '\n</think>\n\n' + content texts.
C3_RoundTrip == seen.strict = "RC" => Len(written) = seen.n /\ Contents(written) = OpenMarker \o seen.r \o CloseMarker \o seen.c

\* C3 witness: two reasoning events and a content event were received
C3_Witness == seen.strict = "RC" /\ seen.n = 3 /\ Len(seen.r) = 2 /\ impl = "server"

\* C4: a terminator received while the block is open writes the
\* closing-marker event and then 'data: [DONE]', nothing else; received
\* while the block is closed it writes 'data: [DONE]' alone.
C4_DoneClosesOpenBlock == \A s \in DoneSteps : s.wrote = (IF s.pre THEN <<closingChunk, DoneEvent>> ELSE <<DoneEvent>>)

\* C4 witness: the terminator arrives while the block is open
C4_Witness == \E s \in DoneSteps : s.pre /\ impl = "server"

\* C5 as stated: after a terminator has been handled the block is closed
\* (reasoningStarted is false).
C5_AsStated == \A s \in DoneSteps : s.post = FALSE

\* an event that leaves a reasoning block open: it holds '<think>\n' and
\* no '\n</think>\n\n' after it
HasOpen(e) == \E i \in DOMAIN e.delta.content.v : e.delta.content.v[i] = OpenMarker[1]
HasClose(e) == \E i \in DOMAIN e.delta.content.v : e.delta.content.v[i] = CloseMarker[1]
LeavesOpen(e) == \E i \in DOMAIN e.delta.content.v : e.delta.content.v[i] = OpenMarker[1] /\ \A j \in DOMAIN e.delta.content.v : j > i => e.delta.content.v[j] # CloseMarker[1]
Unterminated(evs, i) == \E j \in 1..(i - 1) : LeavesOpen(evs[j]) /\ \A m \in (j + 1)..(i - 1) : ~HasClose(evs[m])

\* C6 as stated: in part_001, part_002 and part_004 'data: [DONE]' is
\* never written while a '<think>\n' written before it has no
\* '\n</think>\n\n' after it.
C6_AsStated == \A i \in DOMAIN written : written[i] = DoneEvent => ~Unterminated(written, i)

\* C7: no event written to the client carries reasoning_content.
C7_NoReasoningField == \A i \in DOMAIN written : written[i].delta.reasoning_content = Absent

\* C7 witness: an event whose reasoning_content is null or '' was
\* received beside content and written
C7_Witness == \E s \in ContentSteps : s.line.r \in {Null, Str(<<>>)} /\ s.wrote # <<>> /\ impl = "server"

\* C8 as stated: in part_001 and part_002 no event written to the client
\* carries reasoning_content.
C8_AsStated == impl \in {"part_001", "part_002"} => \A i \in DOMAIN written : written[i].delta.reasoning_content = Absent

\* C9: an event whose delta has no non-empty content and no non-empty
\* reasoning_content writes nothing and leaves the block as it was.
C9_EmptyDeltaSuppressed == \A s \in Steps : (s.line.t = "event" /\ ~Truthy(s.line.r) /\ ~Truthy(s.line.c)) => s.wrote = <<>> /\ s.post = s.pre

\* C9 witness: an empty delta arrives while the block is open
C9_Witness == \E s \in Steps : s.line.t = "event" /\ ~Truthy(s.line.r) /\ ~Truthy(s.line.c) /\ s.pre /\ impl = "server"

C11_InArrivalOrder ==
  /\ Len(steps) = Len(arrived)
  /\ \A i \in DOMAIN steps :
       LET s == steps[i]
       IN /\ s.line = arrived[i]
          /\ s.line.t = "event" => Len(s.wrote) <= 1 /\ \A j \in DOMAIN s.wrote : s.wrote[j].kind = "chunk" /\ s.wrote[j].id = "backend"
          /\ s.line.t = "done" => s.wrote = (IF s.pre THEN <<closingChunk>> ELSE <<>>) \o <<DoneEvent>>
          /\ s.line.t \notin {"event", "done"} => s.wrote = <<>>
  /\ Len(written) >= Len(Wrote(steps))
  /\ SubSeq(written, Len(written) - Len(Wrote(steps)) + 1, Len(written)) = Wrote(steps)

\* C11 witness: a chunk completed two lines, each wrote its event, and the
\* start of a further line is held back
C11_Witness ==
  /\ Len(arrived) = 2
  /\ \A i \in DOMAIN steps : steps[i].line.t = "event" /\ Len(steps[i].wrote) = 1
  /\ written = Wrote(steps)
  /\ buffer # <<>>

\* the completions answered to the client, each choice of the backend
\* result beside the message returned for it
Answered == pc = "responded" /\ backend.kind = "replied" /\ res.body.kind = "completion"
Pairs == {[choice |-> backend.data.choices[i], message |-> res.body.choices[i]] : i \in DOMAIN backend.data.choices}
HasReasoning(choice) == choice.reasoning_content.k = "str" /\ choice.reasoning_content.v # <<>>
OriginalText(choice) == IF choice.content.k = "str" THEN choice.content.v ELSE <<>>
Wrapped(choice) == OpenMarker \o choice.reasoning_content.v \o CloseMarker \o OriginalText(choice)

\* C12 as stated: a choice with non-empty reasoning is returned as open
\* marker, reasoning, close marker, original content (empty when absent); a
\* choice without reasoning keeps its original content as it was; no
\* returned message has a reasoning_content field.
C12_AsStated ==
  Answered =>
    /\ Len(res.body.choices) = Len(backend.data.choices)
    /\ \A p \in Pairs :
         /\ HasReasoning(p.choice) => p.message.content = Str(Wrapped(p.choice))
         /\ ~HasReasoning(p.choice) => p.message.content = p.choice.content
         /\ p.message.reasoning_content = Absent

\* C12: a choice with non-empty reasoning is returned as open marker,
\* reasoning, close marker, original content; a choice without reasoning is
\* returned with its content, where a content that is absent or null is
\* returned as the empty string; no returned message has a
\* reasoning_content field.
C12_Merge ==
  Answered =>
    /\ Len(res.body.choices) = Len(backend.data.choices)
    /\ \A p \in Pairs :
         /\ HasReasoning(p.choice) => p.message.content = Str(Wrapped(p.choice))
         /\ ~HasReasoning(p.choice) => p.message.content = Str(OriginalText(p.choice))
         /\ p.message.reasoning_content = Absent

\* C12 witness: a completion of two choices was answered, one with
\* reasoning and content, one without reasoning
C12_Witness ==
  /\ Answered
  /\ Len(backend.data.choices) = 2
  /\ HasReasoning(backend.data.choices[1]) /\ backend.data.choices[1].content = Str(<<"c">>)
  /\ res.body.choices[1].content = Str(<<"<think>\n", "a", "\n</think>\n\n", "c">>)
  /\ ~HasReasoning(backend.data.choices[2]) /\ res.body.choices[2].content = Str(<<"c">>)

\* the handler has gone past the model selection for a model that is a name
Selected == pc # "received" /\ request.model.k = "str"

\* C13: for a model name that is a key of MODEL_MAPPING the backend is
\* called, and the model of the call is the value the table holds for the
\* name, whatever the passthrough and heuristic rules would have given.
C13_MappedValue ==
  Selected /\ request.model.v \in DOMAIN MODEL_MAPPING =>
    /\ pc # "responded" \/ backend.kind # "idle"
    /\ call.model = Str(MODEL_MAPPING[request.model.v])

\* C13 witness: 'gpt-4o' was requested and the call names the table's
\* value, not the id the 'gpt-4' rule gives
C13_Witness ==
  /\ Selected
  /\ request.model = Str(<<"gpt-4", "o">>)
  /\ call.model = Str(<<"deepseek-ai", "/", "deepseek-v3.1-", "terminus">>)
  /\ Heuristic(request.model.v) = DeepseekV32

\* C14 as stated: for a model name that is no key of MODEL_MAPPING the
\* selection does not fail and the call names a non-empty id, the one the
\* first matching rule gives (passthrough, gpt-4/opus, terminus, glm,
\* default).
C14_AsStated ==
  Selected /\ request.model.v \notin DOMAIN MODEL_MAPPING =>
    /\ pc # "responded" \/ backend.kind # "idle"
    /\ call.model.k = "str"
    /\ call.model.v # <<>>
    /\ call.model.v = Heuristic(request.model.v)

\* C15 as stated: a request without model or without messages is answered
\* with status 400 and an error object, and the backend is not called.
C15_AsStated ==
  pc # "received" /\ (request.model = Absent \/ request.messages = "absent") =>
    /\ pc = "responded"
    /\ backend.kind = "idle"
    /\ call = NoCall
    /\ res.status = 400
    /\ res.body.kind = "error"

\* the backend call has failed: an error status, no response at all, or a
\* 200 whose body is no completion the handler can map
CallFailed == pc = "responded" /\ (backend.kind \in {"failed", "network"} \/ (backend.kind = "replied" /\ MapThrows(backend.data)))

\* C16: after every failure of the backend call the client has a status
\* outside 200..299, the backend's status when the failure has one and 500
\* otherwise, and a JSON body whose error object has a non-empty message
\* and type and the same code.
C16_ErrorShape ==
  CallFailed =>
    /\ res.status \notin 200..299
    /\ res.status = (IF backend.kind = "failed" THEN backend.status ELSE 500)
    /\ res.body.kind = "error"
    /\ res.body.error.message # ""
    /\ res.body.error.type = "invalid_request_error"
    /\ res.body.error.code = res.status

\* C16 witness: the backend answered 401 and the client has 401 with the
\* error object
C16_Witness ==
  /\ CallFailed
  /\ backend.kind = "failed" /\ backend.status = 401
  /\ res.status = 401
  /\ res.body.error.message = "Request failed with status code 401"

\* C17 as stated: when the backend answers an error status with an error
\* body, the client has that status and that body, unchanged.
C17_AsStated ==
  pc = "responded" /\ backend.kind = "failed" /\ backend.error # NoError =>
    /\ res.status = backend.status
    /\ res.body.error = backend.error

\* C18 as stated: a request that waits for the backend does not wait for
\* ever: while it waits there is a step left to take (the answer, or the
\* timeout that ends the wait with an error response).
C18_AsStated == pc = "awaiting" => ENABLED NextRequest

\* C19 as stated: once the client has closed its connection the backend
\* stream is no longer read and nothing is written for the client.
C19_AsStated == client = "closed" => upstream # "flowing" /\ Wrote(steps) = <<>>

\* C20 as stated: after an error of the backend stream the last thing the
\* client was sent is an error payload.
C20_AsStated == upstream = "errored" => written # <<>> /\ written[Len(written)].kind = "error"

\* C21: whatever the order of the callbacks of two requests, what each
\* request has written, its flag and its held-back text are what the same
\* stream gives when it is handled alone.
C21_Independent ==
  \A c \in DOMAIN conns :
    /\ conns[c].written = conns[c].alone.written
    /\ conns[c].reasoningStarted = conns[c].alone.reasoningStarted
    /\ conns[c].buffer = conns[c].alone.buffer

\* C21 witness: the first request has an open reasoning block and has not
\* ended; after it, the second request handled a chunk and has written
\* content without a closing marker, and holds back the start of a line
C21_Witness ==
  /\ conns # <<>>
  /\ conns[1].reasoningStarted /\ conns[1].written # <<>> /\ ~conns[1].ended
  /\ last = 2
  /\ conns[2].written = Forwarded(<<"c">>)
  /\ conns[2].buffer # <<>>

\* C22 as stated: every chunk written to the client, forwarded or
\* synthetic, names the model the client asked for.
C22_AsStated == \A i \in DOMAIN written : written[i].kind = "chunk" => written[i].model = ClientModel

\* the backend has been called for the request
Called == pc # "received" /\ call # NoCall

\* C23 as stated: the call carries the request's temperature and
\* max_tokens whenever they are numbers, 0 included, and 0.6 and 4096 when
\* they are absent; stream is the request's boolean, false when absent;
\* messages are the request's.
C23_AsStated ==
  Called =>
    /\ call.temperature = (IF request.temperature.k = "num" THEN request.temperature ELSE Num(DefaultTemperature))
    /\ call.max_tokens = (IF request.max_tokens.k = "num" THEN request.max_tokens ELSE Num(DefaultMaxTokens))
    /\ call.stream = (request.stream = "true")
    /\ call.messages = request.messages

\* C24 as stated: however the transport cuts the bytes into chunks, what
\* has been written, and the flag, are what the same bytes give when every
\* line comes in a chunk of its own; and the text held back is the start of
\* the line the transport has cut, no more and no less.
C24_AsStated ==
  /\ written = whole.written
  /\ reasoningStarted = whole.reasoningStarted
  /\ buffer = SuffixText(owed)

\* the markers written so far
RECURSIVE Count(_, _)
Count(text, atom) == IF text = <<>> THEN 0 ELSE (IF Head(text) = atom THEN 1 ELSE 0) + Count(Tail(text), atom)
Opened == Count(Contents(written), OpenMarker[1])
Closed == Count(Contents(written), CloseMarker[1])

\* C25 as stated: after every handled line the closing markers written are
\* no more than the opening markers, at most one fewer, and exactly one
\* fewer when reasoningStarted is true.
C25_AsStated ==
  /\ Closed <= Opened
  /\ Opened <= Closed + 1
  /\ (Opened = Closed + 1) <=> reasoningStarted

\* a text without the marker strings
RECURSIVE Strip(_)
Strip(text) == IF text = <<>> THEN <<>> ELSE (IF Head(text) \in {OpenMarker[1], CloseMarker[1]} THEN <<>> ELSE <<Head(text)>>) \o Strip(Tail(text))

\* C26 as stated: in part_001, part_002 and part_004 the content written so
\* far, its markers removed, is the reasoning and content text of every
\* event received so far, in the order of arrival (whenever the bytes
\* received end with a whole line).
C26_AsStated == owed = NoCut => Strip(Contents(written)) = received

\* C27 as stated: the terminator is written at most once and nothing is
\* written after it.
C27_AsStated == \A i \in DOMAIN written : written[i].kind = "done" => i = Len(written)

====
